---- MODULE Spec2Model ----
(***************************************************************************)
(* Model of fastlib/utils/snowflake_util.py: the Snowflake ID generator    *)
(* (SnowflakeIDGenerator) and the process-wide accessor                    *)
(* get_snowflake_generator; and of fastlib/contextvars.py: the current     *)
(* user held in a ContextVar.                                              *)
(*                                                                         *)
(* Python integers are unbounded.  The identifiers and the epoch do not    *)
(* fit the model checker's machine integers, so every Python int is held   *)
(* as a two's-complement number of NLimbs limbs of LimbBits bits, least    *)
(* significant limb first, and +, -, <<, >>, |, &, ^ and < are computed on *)
(* that representation bit by bit.  NoOverflow states that no value of     *)
(* the model leaves the range of the representation.                       *)
(***************************************************************************)
EXTENDS Integers, Sequences, FiniteSets, TLC

\* ------------------------------------------------------------ bounds
LimbBits == 11
NLimbs == 6
NThreads == 2
MaxCalls == 3
MaxChain == 4098
MaxGens == 2
PairCalls == 2
GlobalCalls == 3

Base == 2 ^ LimbBits
IntWidth == NLimbs * LimbBits
Threads == 1..NThreads

\* ------------------------------------------------- Python integers
RECURSIVE Limbs(_, _)
Limbs(n, k) == IF k = 0 THEN <<>> ELSE <<n % Base>> \o Limbs(n \div Base, k - 1)

\* the Python int n, for an n the model checker can hold
PyInt(n) == Limbs(n, NLimbs)

IsNeg(a) == a[NLimbs] >= Base \div 2

\* limb i of a; limbs below the first are 0, limbs above the last repeat the sign
LimbAt(a, i) ==
    IF i < 1 THEN 0
    ELSE IF i > NLimbs THEN (IF IsNeg(a) THEN Base - 1 ELSE 0)
    ELSE a[i]

RECURSIVE AddLimbs(_, _, _, _)
AddLimbs(a, b, i, c) ==
    IF i > NLimbs THEN <<>>
    ELSE LET s == a[i] + b[i] + c
         IN  <<s % Base>> \o AddLimbs(a, b, i + 1, s \div Base)

Invert(a) == [i \in 1..NLimbs |-> Base - 1 - a[i]] \o <<>>

\* a + b and a - b
Add(a, b) == AddLimbs(a, b, 1, 0)
Sub(a, b) == AddLimbs(a, Invert(b), 1, 1)

\* a << n and a >> n (n >= 0); >> keeps the sign, as Python's does
Shl(a, n) ==
    LET q == n \div LimbBits
        r == n % LimbBits
    IN  [i \in 1..NLimbs |->
            ((LimbAt(a, i - q) * (2 ^ r)) % Base)
            + (LimbAt(a, i - q - 1) \div (2 ^ (LimbBits - r)))] \o <<>>
Shr(a, n) ==
    LET q == n \div LimbBits
        r == n % LimbBits
    IN  [i \in 1..NLimbs |->
            (LimbAt(a, i + q) \div (2 ^ r))
            + ((LimbAt(a, i + q + 1) * (2 ^ (LimbBits - r))) % Base)] \o <<>>

\* bit j of the limb x
LimbBit(x, j) == (x \div (2 ^ j)) % 2

RECURSIVE SumBits(_, _)
SumBits(F(_), j) ==
    IF j = LimbBits THEN 0 ELSE F(j) * (2 ^ j) + SumBits(F, j + 1)

OrLimb(x, y) ==
    IF x = 0 THEN y ELSE IF y = 0 THEN x
    ELSE SumBits(LAMBDA j : IF LimbBit(x, j) = 1 \/ LimbBit(y, j) = 1 THEN 1 ELSE 0, 0)
AndLimb(x, y) ==
    IF x = 0 \/ y = 0 THEN 0
    ELSE SumBits(LAMBDA j : IF LimbBit(x, j) = 1 /\ LimbBit(y, j) = 1 THEN 1 ELSE 0, 0)
XorLimb(x, y) ==
    IF x = 0 THEN y ELSE IF y = 0 THEN x
    ELSE SumBits(LAMBDA j : IF LimbBit(x, j) # LimbBit(y, j) THEN 1 ELSE 0, 0)

\* a | b, a & b and a ^ b on two's-complement numbers; | evaluates each
\* operand once, as Python does
BitOr(a, b) ==
    CHOOSE r \in {[i \in 1..NLimbs |-> OrLimb(u[i], v[i])] \o <<>> :
                     u \in {a}, v \in {b}} : TRUE
BitAnd(a, b) == [i \in 1..NLimbs |-> AndLimb(a[i], b[i])] \o <<>>
BitXor(a, b) == [i \in 1..NLimbs |-> XorLimb(a[i], b[i])] \o <<>>

\* a < b and a <= b
Lt(a, b) ==
    IF IsNeg(a) # IsNeg(b) THEN IsNeg(a) ELSE IsNeg(Sub(a, b))
Le(a, b) == ~Lt(b, a)

RECURSIVE MulLimbs(_, _, _, _)
MulLimbs(a, m, i, c) ==
    IF i > NLimbs THEN <<>>
    ELSE LET s == a[i] * m + c
         IN  <<s % Base>> \o MulLimbs(a, m, i + 1, s \div Base)

\* a * 1000 + d: appends a group of three decimal digits to a
Thousands(a, d) == AddLimbs(MulLimbs(a, 1000, 1, 0), PyInt(d), 1, 0)

\* the value of a Python int known to lie in 0 .. Base^2 - 1
Small(a) == a[1] + Base * a[2]
IsSmall(a) == \A i \in 3..NLimbs : a[i] = 0

\* ------------------------------------------------------ str(int)
\* a \div d and a % d for a >= 0 and a small d, limb by limb from the top:
\* <<the quotient's limbs 1..i, the remainder>>
RECURSIVE DivSmall(_, _, _, _)
DivSmall(a, d, i, rem) ==
    IF i = 0 THEN <<<<>>, rem>>
    ELSE LET cur == rem * Base + a[i]
             rest == DivSmall(a, d, i - 1, cur % d)
         IN  <<Append(rest[1], cur \div d), rest[2]>>

DigitChar(d) == <<"0", "1", "2", "3", "4", "5", "6", "7", "8", "9">>[d + 1]

\* the decimal digits of a > 0, most significant first
RECURSIVE Digits(_)
Digits(a) ==
    IF a = PyInt(0) THEN <<>>
    ELSE LET qr == DivSmall(a, 10, NLimbs, 0)
         IN  Append(Digits(qr[1]), DigitChar(qr[2]))

\* str(a) of a Python int, as the tuple of its characters
Str(a) ==
    IF a = PyInt(0) THEN <<"0">>
    ELSE IF IsNeg(a) THEN <<"-">> \o Digits(Sub(PyInt(0), a))
    ELSE Digits(a)

\* --------------------------------- SnowflakeIDGenerator.__init__
TIMESTAMP_BITS == 41
DATACENTER_ID_BITS == 5
WORKER_ID_BITS == 5
SEQUENCE_BITS == 12

\* -1 ^ (-1 << bits)
MaxOf(bits) == BitXor(PyInt(-1), Shl(PyInt(-1), bits))
MAX_DATACENTER_ID == MaxOf(DATACENTER_ID_BITS)
MAX_WORKER_ID == MaxOf(WORKER_ID_BITS)
MAX_SEQUENCE == MaxOf(SEQUENCE_BITS)

WORKER_ID_SHIFT == SEQUENCE_BITS
DATACENTER_ID_SHIFT == SEQUENCE_BITS + WORKER_ID_BITS
\* a timestamp shifted no further than the datacenter field
TIMESTAMP_LEFT_SHIFT_Short == DATACENTER_ID_SHIFT

TIMESTAMP_LEFT_SHIFT == SEQUENCE_BITS + WORKER_ID_BITS + DATACENTER_ID_BITS

\* 1672531200000
EPOCH == Thousands(Thousands(Thousands(Thousands(PyInt(1), 672), 531), 200), 0)

\* the value last_timestamp has before any ID was generated
NO_TIMESTAMP == PyInt(-1)

None == "None"

\* result[t] before thread t has finished any call
NoResult == [kind |-> "none"]

\* a constructor that forgot the lower bounds
ConstructorError_NoLowerBound(datacenter_id, worker_id) ==
    IF Lt(MAX_DATACENTER_ID, datacenter_id)
    THEN "Datacenter ID must be between 0 and MAX_DATACENTER_ID"
    ELSE IF Lt(MAX_WORKER_ID, worker_id)
    THEN "Worker ID must be between 0 and MAX_WORKER_ID"
    ELSE None

\* the range checks of the constructor: which argument its ValueError names,
\* or None when it raises nothing
ConstructorError(datacenter_id, worker_id) ==
    IF Lt(MAX_DATACENTER_ID, datacenter_id) \/ Lt(datacenter_id, PyInt(0))
    THEN "Datacenter ID must be between 0 and MAX_DATACENTER_ID"
    ELSE IF Lt(MAX_WORKER_ID, worker_id) \/ Lt(worker_id, PyInt(0))
    THEN "Worker ID must be between 0 and MAX_WORKER_ID"
    ELSE None

\* the object a successful constructor call leaves; lock 0 is an unheld Lock
NewGenerator(datacenter_id, worker_id, sequence) ==
    [datacenter_id |-> datacenter_id,
     worker_id |-> worker_id,
     sequence |-> sequence,
     last_timestamp |-> NO_TIMESTAMP,
     lock |-> 0]

\* ------------------------------------------------ generate_id, parse_id
\* a sequence update without the mask
NextSequence_Unmasked(sequence) == Add(sequence, PyInt(1))

\* (self.sequence + 1) & self.MAX_SEQUENCE
NextSequence(sequence) == BitAnd(Add(sequence, PyInt(1)), MAX_SEQUENCE)

\* a drift check that never fires
ClockMovedBackwards_Never(timestamp, last_timestamp) == FALSE

\* a drift check that tolerates a backward step of one millisecond
ClockMovedBackwards_OffByOne(timestamp, last_timestamp) ==
    Lt(Add(timestamp, PyInt(1)), last_timestamp)

\* timestamp < self.last_timestamp
ClockMovedBackwards(timestamp, last_timestamp) == Lt(timestamp, last_timestamp)

\* the drift computed the wrong way round
DriftMillis_Reversed(timestamp, last_timestamp) == Sub(timestamp, last_timestamp)

\* self.last_timestamp - timestamp, the number the RuntimeError reports
DriftMillis(timestamp, last_timestamp) == Sub(last_timestamp, timestamp)

\* a wait loop that stops as soon as the clock reads last_timestamp again
StillSameMillis_Strict(timestamp, last_timestamp) == Lt(timestamp, last_timestamp)

\* a wait loop that never sees the clock advance
StillSameMillis_Always(timestamp, last_timestamp) == TRUE

\* timestamp <= last_timestamp, the loop test of _wait_for_next_millis
StillSameMillis(timestamp, last_timestamp) == Le(timestamp, last_timestamp)

\* an ID built without the datacenter field
ComposeId_NoDatacenter(timestamp, datacenter_id, worker_id, sequence) ==
    BitOr(BitOr(Shl(Sub(timestamp, EPOCH), TIMESTAMP_LEFT_SHIFT),
                Shl(worker_id, WORKER_ID_SHIFT)),
          sequence)

\* the expression assigned to snowflake_id
ComposeId(timestamp, datacenter_id, worker_id, sequence) ==
    BitOr(BitOr(BitOr(Shl(Sub(timestamp, EPOCH), TIMESTAMP_LEFT_SHIFT),
                      Shl(datacenter_id, DATACENTER_ID_SHIFT)),
                Shl(worker_id, WORKER_ID_SHIFT)),
          sequence)

\* a * m for a factor m of at most 2^11, by long multiplication
Times(a, m) == MulLimbs(a, m, 1, 0) \o <<>>

\* (now - 1672531200000) * 2^22 + datacenter_id * 2^17 + worker_id * 2^12
\*    + sequence
IdSum(now, datacenter_id, worker_id, sequence) ==
    Add(Add(Add(Times(Times(Sub(now, EPOCH), 2048), 2048),
                Times(Times(datacenter_id, 2048), 64)),
            Times(Times(worker_id, 2048), 2)),
        sequence)

\* a parse that reads the worker field at the datacenter's position
parse_id_WrongShift(snowflake_id) ==
    [timestamp |-> Add(Shr(snowflake_id, TIMESTAMP_LEFT_SHIFT), EPOCH),
     datacenter_id |-> BitAnd(Shr(snowflake_id, DATACENTER_ID_SHIFT), MAX_DATACENTER_ID),
     worker_id |-> BitAnd(Shr(snowflake_id, DATACENTER_ID_SHIFT), MAX_WORKER_ID),
     sequence |-> BitAnd(snowflake_id, MAX_SEQUENCE)]

\* the dictionary parse_id returns, without its "datetime" rendering
parse_id(snowflake_id) ==
    [timestamp |-> Add(Shr(snowflake_id, TIMESTAMP_LEFT_SHIFT), EPOCH),
     datacenter_id |-> BitAnd(Shr(snowflake_id, DATACENTER_ID_SHIFT), MAX_DATACENTER_ID),
     worker_id |-> BitAnd(Shr(snowflake_id, WORKER_ID_SHIFT), MAX_WORKER_ID),
     sequence |-> BitAnd(snowflake_id, MAX_SEQUENCE)]

\* a lock that never makes anyone wait
LockFree_Always(lock) == TRUE

\* `with lock` may enter: the Lock is not held
LockFree(lock) == lock = 0

\* an accessor without the second check
StillNone_Unchecked(generator) == TRUE

\* `if _snowflake_generator is None`, as tested inside the accessor's lock
StillNone(generator) == generator = 0

\* ------------------------------------------------ fastlib/contextvars.py
\* the objects a caller passes as user_id: the type and, for a number, the
\* value (a str by the number it spells, a float in hundredths)
Obj(type, value) == [type |-> type, value |-> value]
NoneObj == Obj("NoneType", 0)

\* the ContextVar has no value in a context
MISSING == Obj("MISSING", 0)

\* isinstance(user_id, int); bool is a subclass of int
IsInstanceInt(user_id) == user_id.type \in {"int", "bool"}

\* a check that lets zero through
InvalidUserId_AllowsZero(user_id) ==
    ~IsInstanceInt(user_id) \/ user_id.value < 0

\* `not isinstance(user_id, int) or user_id <= 0`
InvalidUserId(user_id) == ~IsInstanceInt(user_id) \/ user_id.value <= 0

\* ContextVar("current_user_id", default=None).get()
ContextGet(value) == IF value = MISSING THEN NoneObj ELSE value

\* every thread in one context
ContextOf_Shared(t) == 1

\* the Context the calls of thread t run in: each thread has its own
ContextOf(t) == t

\* a Token that remembers nothing
OldValue_Forgotten(value) == MISSING

\* Token.old_value, as ContextVar.set records it
OldValue(value) == value

\* the Token ContextVar.set returns in context c
NewToken(c, value) ==
    [context |-> c, old_value |-> OldValue(value), used |-> FALSE]

\* what ContextVar.reset(token) raises in context c, "" if nothing; token 0
\* is an argument that is not a Token
ResetError(all, token, c) ==
    IF token = 0 THEN "TypeError"
    ELSE IF all[token].used THEN "RuntimeError"
    ELSE IF all[token].context # c THEN "ValueError"
    ELSE ""

\* ------------------------------------------------------------ state
VARIABLES
    heap,       \* the SnowflakeIDGenerator objects constructed so far, in order
    _snowflake_generator,  \* the module global: an index into heap, 0 for None
    _generator_lock,       \* the module's Lock: the thread holding it, 0 if free
    pc,         \* pc[t]: the source line thread t is about to execute, or "idle"
    op,         \* op[t]: the function thread t called
    args,       \* args[t]: the arguments of t's accessor call
    self,       \* self[t]: the generator (index into heap) t's call runs on
    timestamp,  \* timestamp[t]: generate_id's local variable
    wait,       \* wait[t]: the frame of _wait_for_next_millis, or NoFrame
    result,     \* result[t]: what t's last finished call returned or raised
    started,    \* started[t]: how many IDs had been returned when t's call began
    returned,   \* the first MaxCalls IDs returned, in order of return
    run,        \* run[g]: the IDs g returned with its latest timestamp, counted
    calls,      \* number of calls begun
    _current_user_id,  \* the ContextVar: _current_user_id[c] is its value in context c
    tokens,     \* the Token objects ContextVar.set has returned, in order
    tokenlog    \* tokenlog[k]: what was observed when tokens[k] was made and reset

globals == <<_snowflake_generator, _generator_lock>>
locals == <<op, args, self, timestamp, wait, started>>
history == <<returned, run>>
context == <<_current_user_id, tokens, tokenlog>>
vars == <<heap, globals, pc, locals, result, history, calls, context>>

\* ------------------------------------------------ values the clock reads
T0 == Add(EPOCH, PyInt(5000))
T1 == Add(T0, PyInt(1))
TFar == Add(EPOCH, Shl(PyInt(1), TIMESTAMP_BITS))
ClockValues == {PyInt(-1), T0, T1, TFar}

\* constructor arguments of a shared generator: datacenter, worker, sequence
SharedArgs == {<<1, 1, 0>>, <<31, 0, 4095>>, <<0, 31, -1>>, <<1, 1, 4100>>}

\* <<>> stands for "no value yet" where a Python int is expected
NoRun == [timestamp |-> <<>>, count |-> 0, last_id |-> <<>>, prev_id |-> <<>>]

\* a local variable that holds no int, and the absent frame of
\* _wait_for_next_millis
NoInt == <<>>
NoFrame == [last_timestamp |-> NoInt, timestamp |-> NoInt]

\* no thread is in a call and nothing has been returned
Quiet ==
    /\ _generator_lock = 0
    /\ pc = [t \in Threads |-> "idle"]
    /\ op = [t \in Threads |-> None]
    /\ args = [t \in Threads |-> None]
    /\ self = [t \in Threads |-> 0]
    /\ timestamp = [t \in Threads |-> NoInt]
    /\ wait = [t \in Threads |-> NoFrame]
    /\ result = [t \in Threads |-> NoResult]
    /\ started = [t \in Threads |-> 0]
    /\ returned = <<>>
    /\ calls = 0
    /\ _current_user_id = [c \in Threads |-> MISSING]
    /\ tokens = <<>>
    /\ tokenlog = <<>>

\* Quiet, before the global generator exists
Idle ==
    /\ _snowflake_generator = 0
    /\ Quiet

Init ==
    /\ \E a \in SharedArgs :
          heap = <<NewGenerator(PyInt(a[1]), PyInt(a[2]), PyInt(a[3]))>>
    /\ run = <<NoRun>>
    /\ Idle

\* ------------------------------------------------------ __init__
\* SnowflakeIDGenerator(datacenter_id, worker_id, sequence), called by thread t
Construct(t, datacenter_id, worker_id, sequence) ==
    /\ pc[t] = "idle"
    /\ Len(heap) < MaxGens
    /\ LET error == ConstructorError(PyInt(datacenter_id), PyInt(worker_id)) IN
       IF error = None
       THEN /\ heap' = Append(heap, NewGenerator(PyInt(datacenter_id),
                                                 PyInt(worker_id), PyInt(sequence)))
            /\ run' = Append(run, NoRun)
            /\ result' = [result EXCEPT ![t] =
                    [kind |-> "generator", gen |-> Len(heap) + 1,
                     args |-> <<datacenter_id, worker_id, sequence>>]]
       ELSE /\ result' = [result EXCEPT ![t] =
                    [kind |-> "ValueError", message |-> error,
                     args |-> <<datacenter_id, worker_id, sequence>>]]
            /\ UNCHANGED <<heap, run>>
    /\ op' = [op EXCEPT ![t] = "SnowflakeIDGenerator"]
    /\ UNCHANGED <<globals, pc, args, self, timestamp, wait, started, returned, calls, context>>

\* ------------------------------------------------------ generate_id
\* a with statement that does not take the lock
SetLock_Dropped(g, holder) == heap

\* a with statement that keeps the lock when it is left
SetLock_NeverReleased(g, holder) ==
    [heap EXCEPT ![g].lock = IF holder = 0 THEN @ ELSE holder]

\* entering (holder = t) and leaving (holder = 0) `with self.lock` of generator g
SetLock(g, holder) == [heap EXCEPT ![g].lock = holder]

\* thread t calls generate_id on generator g
Call(t, g, limit) ==
    /\ pc[t] = "idle"
    /\ calls < limit
    /\ g \in 1..Len(heap)
    /\ pc' = [pc EXCEPT ![t] = "L110"]
    /\ op' = [op EXCEPT ![t] = "generate_id"]
    /\ self' = [self EXCEPT ![t] = g]
    /\ started' = [started EXCEPT ![t] = Len(returned)]
    /\ result' = [result EXCEPT ![t] = NoResult]
    /\ calls' = calls + 1
    /\ UNCHANGED <<heap, globals, args, timestamp, wait, history, context>>

\* line 110: with self.lock
Acquire(t) ==
    /\ pc[t] = "L110"
    /\ LockFree(heap[self[t]].lock)
    /\ heap' = SetLock(self[t], t)
    /\ pc' = [pc EXCEPT ![t] = "L111"]
    /\ UNCHANGED <<globals, locals, result, history, calls, context>>

\* line 111: timestamp = self._get_timestamp(), the clock reading now
ReadTimestamp(t, now) ==
    /\ pc[t] = "L111"
    /\ timestamp' = [timestamp EXCEPT ![t] = now]
    /\ pc' = [pc EXCEPT ![t] = "L114"]
    /\ UNCHANGED <<heap, globals, op, args, self, wait, started, result, history, calls, context>>

\* lines 114-117: the drift check; raising leaves the with block
CheckDrift(t) ==
    /\ pc[t] = "L114"
    /\ LET g == heap[self[t]] IN
       IF ClockMovedBackwards(timestamp[t], g.last_timestamp)
       THEN /\ result' = [result EXCEPT ![t] =
                    [kind |-> "RuntimeError",
                     drift |-> DriftMillis(timestamp[t], g.last_timestamp),
                     timestamp |-> timestamp[t],
                     last_timestamp |-> g.last_timestamp,
                     after |-> Len(returned)]]
            /\ heap' = SetLock(self[t], 0)
            /\ pc' = [pc EXCEPT ![t] = "idle"]
            /\ timestamp' = [timestamp EXCEPT ![t] = NoInt]
       ELSE /\ pc' = [pc EXCEPT ![t] = "L120"]
            /\ UNCHANGED <<heap, result, timestamp>>
    /\ UNCHANGED <<globals, op, args, self, wait, started, history, calls, context>>

\* lines 120-127: the sequence update
UpdateSequence(t) ==
    /\ pc[t] = "L120"
    /\ LET g == heap[self[t]] IN
       IF timestamp[t] = g.last_timestamp
       THEN LET seq == NextSequence(g.sequence) IN
            /\ heap' = [heap EXCEPT ![self[t]].sequence = seq]
            /\ IF seq = PyInt(0)
               THEN /\ wait' = [wait EXCEPT ![t] =
                            [last_timestamp |-> g.last_timestamp, timestamp |-> NoInt]]
                    /\ pc' = [pc EXCEPT ![t] = "L95"]
               ELSE /\ pc' = [pc EXCEPT ![t] = "L129"]
                    /\ UNCHANGED wait
       ELSE /\ heap' = [heap EXCEPT ![self[t]].sequence = PyInt(0)]
            /\ pc' = [pc EXCEPT ![t] = "L129"]
            /\ UNCHANGED wait
    /\ UNCHANGED <<globals, op, args, self, timestamp, started, result, history, calls, context>>

\* lines 95-98: one reading of the clock in _wait_for_next_millis and the
\* loop test that follows it; leaving the loop returns the reading to line 124
WaitForNextMillis(t, now) ==
    /\ pc[t] = "L95"
    /\ IF StillSameMillis(now, wait[t].last_timestamp)
       THEN /\ wait' = [wait EXCEPT ![t].timestamp = now]
            /\ UNCHANGED <<pc, timestamp>>
       ELSE /\ wait' = [wait EXCEPT ![t] = NoFrame]
            /\ timestamp' = [timestamp EXCEPT ![t] = now]
            /\ pc' = [pc EXCEPT ![t] = "L129"]
    /\ UNCHANGED <<heap, globals, op, args, self, started, result, history, calls, context>>

\* an assignment that lands in worker_id
StoreLastTimestamp_IntoWorker(t) ==
    /\ pc[t] = "L129"
    /\ heap' = [heap EXCEPT ![self[t]].worker_id = timestamp[t]]
    /\ pc' = [pc EXCEPT ![t] = "L132"]
    /\ UNCHANGED <<globals, locals, result, history, calls, context>>

\* line 129: self.last_timestamp = timestamp
StoreLastTimestamp(t) ==
    /\ pc[t] = "L129"
    /\ heap' = [heap EXCEPT ![self[t]].last_timestamp = timestamp[t]]
    /\ pc' = [pc EXCEPT ![t] = "L132"]
    /\ UNCHANGED <<globals, locals, result, history, calls, context>>

\* run[g] once g has returned id, built from the clock value timestamp
Counted(r, ts, id) ==
    IF r.timestamp = ts
    THEN [r EXCEPT !.count = r.count + 1, !.prev_id = r.last_id, !.last_id = id]
    ELSE [timestamp |-> ts, count |-> 1, prev_id |-> r.last_id, last_id |-> id]

\* the functions that hand the ID on as str(id): lines 148, 228, 262
StrFunctions == {"generate_id_str", "generate_snowflake_id_str", "snowflake_id_str"}

\* what the function called, fn, returns for the ID generate_id returned
Returns(fn, id) ==
    IF fn \in StrFunctions
    THEN [kind |-> "str", id |-> id, str |-> Str(id)]
    ELSE [kind |-> "id", id |-> id]

\* lines 132-139: build the ID and return it, leaving the with block; the
\* callers of lines 148, 218, 228, 252 and 262 pass it on
ReturnId(t) ==
    /\ pc[t] = "L132"
    /\ LET g == heap[self[t]]
           id == ComposeId(timestamp[t], g.datacenter_id, g.worker_id, g.sequence)
       IN  /\ result' = [result EXCEPT ![t] = Returns(op[t], id)]
           /\ returned' =
                 IF Len(returned) < MaxCalls
                 THEN Append(returned,
                             [id |-> id, gen |-> self[t], thread |-> t,
                              timestamp |-> timestamp[t], sequence |-> g.sequence,
                              started |-> started[t], op |-> op[t]])
                 ELSE returned
           /\ run' = [run EXCEPT ![self[t]] = Counted(@, timestamp[t], id)]
    /\ heap' = SetLock(self[t], 0)
    /\ pc' = [pc EXCEPT ![t] = "idle"]
    /\ timestamp' = [timestamp EXCEPT ![t] = NoInt]
    /\ UNCHANGED <<globals, op, args, self, wait, started, calls, context>>

\* ------------------------------------------- generate_id_str, parse_id
\* thread t calls generate_id_str on generator g: line 148 calls generate_id
CallStr(t, g, limit) ==
    /\ pc[t] = "idle"
    /\ calls < limit
    /\ g \in 1..Len(heap)
    /\ pc' = [pc EXCEPT ![t] = "L110"]
    /\ op' = [op EXCEPT ![t] = "generate_id_str"]
    /\ self' = [self EXCEPT ![t] = g]
    /\ started' = [started EXCEPT ![t] = Len(returned)]
    /\ result' = [result EXCEPT ![t] = NoResult]
    /\ calls' = calls + 1
    /\ UNCHANGED <<heap, globals, args, timestamp, wait, history, context>>

\* a parse that takes the sequence from the generator instead of the ID
ParsedBy_ReadsSequence(generator, snowflake_id) ==
    [parse_id(snowflake_id) EXCEPT !.sequence = generator.sequence]

\* the dictionary parse_id builds when called on generator: lines 165-170
\* read the ID and the constants of __init__, no field generate_id writes
ParsedBy(generator, snowflake_id) == parse_id(snowflake_id)

\* what a call of parse_id or parse_snowflake_id returns; held observes the
\* line at which the holder of the generator's lock stood while it ran
Parsed(generator, snowflake_id) ==
    [kind |-> "dict", id |-> snowflake_id,
     dict |-> ParsedBy(generator, snowflake_id),
     held |-> IF generator.lock = 0 THEN "free" ELSE pc[generator.lock]]

\* the IDs handed to parse_id: those returned so far, and 0
ParseInputs == {returned[i].id : i \in 1..Len(returned)} \cup {PyInt(0)}

\* thread t calls parse_id(snowflake_id) on generator g: lines 150-180 take
\* no lock and run to the return
ParseId(t, g, snowflake_id, limit) ==
    /\ pc[t] = "idle"
    /\ calls < limit
    /\ g \in 1..Len(heap)
    /\ op' = [op EXCEPT ![t] = "parse_id"]
    /\ self' = [self EXCEPT ![t] = g]
    /\ result' = [result EXCEPT ![t] = Parsed(heap[g], snowflake_id)]
    /\ calls' = calls + 1
    /\ UNCHANGED <<heap, globals, pc, args, timestamp, wait, started, history, context>>

\* ------------------------------------------- get_snowflake_generator
\* arguments of the accessor: (1, 1) are its defaults
AccessorArgs == {<<1, 1>>, <<2, 3>>, <<32, 1>>}

\* thread t calls get_snowflake_generator(datacenter_id, worker_id)
GetCall(t, datacenter_id, worker_id) ==
    /\ pc[t] = "idle"
    /\ calls < GlobalCalls
    /\ pc' = [pc EXCEPT ![t] = "L203"]
    /\ op' = [op EXCEPT ![t] = "get_snowflake_generator"]
    /\ args' = [args EXCEPT ![t] = <<datacenter_id, worker_id>>]
    /\ result' = [result EXCEPT ![t] = NoResult]
    /\ calls' = calls + 1
    /\ UNCHANGED <<heap, globals, self, timestamp, wait, started, history, context>>

\* line 203: if _snowflake_generator is None
FirstCheck(t) ==
    /\ pc[t] = "L203"
    /\ pc' = [pc EXCEPT ![t] = IF _snowflake_generator = 0 THEN "L204" ELSE "L208"]
    /\ UNCHANGED <<heap, globals, locals, result, history, calls, context>>

\* line 204: with _generator_lock
AcquireGlobal(t) ==
    /\ pc[t] = "L204"
    /\ LockFree(_generator_lock)
    /\ _generator_lock' = t
    /\ pc' = [pc EXCEPT ![t] = "L205"]
    /\ UNCHANGED <<heap, _snowflake_generator, locals, result, history, calls, context>>

\* line 205: the second check; when it fails the with block is left
SecondCheck(t) ==
    /\ pc[t] = "L205"
    /\ IF StillNone(_snowflake_generator)
       THEN /\ pc' = [pc EXCEPT ![t] = "L206"]
            /\ UNCHANGED _generator_lock
       ELSE /\ pc' = [pc EXCEPT ![t] = "L208"]
            /\ _generator_lock' = 0
    /\ UNCHANGED <<heap, _snowflake_generator, locals, result, history, calls, context>>

\* line 206: construct and assign the global, then leave the with block;
\* a ValueError of the constructor leaves it too
ConstructGlobal(t) ==
    /\ pc[t] = "L206"
    /\ LET error == ConstructorError(PyInt(args[t][1]), PyInt(args[t][2])) IN
       IF error = None
       THEN /\ heap' = Append(heap, NewGenerator(PyInt(args[t][1]),
                                                 PyInt(args[t][2]), PyInt(0)))
            /\ run' = Append(run, NoRun)
            /\ _snowflake_generator' = Len(heap) + 1
            /\ pc' = [pc EXCEPT ![t] = "L208"]
            /\ UNCHANGED result
       ELSE /\ result' = [result EXCEPT ![t] =
                    [kind |-> "ValueError", message |-> error, args |-> args[t]]]
            /\ pc' = [pc EXCEPT ![t] = "idle"]
            /\ UNCHANGED <<heap, run, _snowflake_generator>>
    /\ _generator_lock' = 0
    /\ UNCHANGED <<locals, returned, calls, context>>

\* line 208: return _snowflake_generator. The module-level functions go on
\* with the instance returned: lines 218, 228, 252 and 262 enter its
\* generate_id, line 241 runs its parse_id
ReturnGlobal(t) ==
    /\ pc[t] = "L208"
    /\ CASE op[t] = "get_snowflake_generator" ->
              /\ result' = [result EXCEPT ![t] =
                      [kind |-> "generator", gen |-> _snowflake_generator,
                       args |-> args[t]]]
              /\ pc' = [pc EXCEPT ![t] = "idle"]
              /\ UNCHANGED self
         [] op[t] = "parse_snowflake_id" ->
              /\ result' = [result EXCEPT ![t] =
                      Parsed(heap[_snowflake_generator], args[t][3])]
              /\ pc' = [pc EXCEPT ![t] = "idle"]
              /\ self' = [self EXCEPT ![t] = _snowflake_generator]
         [] OTHER ->
              /\ pc' = [pc EXCEPT ![t] = "L110"]
              /\ self' = [self EXCEPT ![t] = _snowflake_generator]
              /\ UNCHANGED result
    /\ UNCHANGED <<heap, globals, op, args, timestamp, wait, started, history, calls, context>>

\* ------------------------------------------- module-level functions
\* the defaults of get_snowflake_generator's parameters, line 189
AccessorDefaults == <<1, 1>>

\* the functions that generate an ID from the global generator
ModuleFunctions ==
    {"generate_snowflake_id", "generate_snowflake_id_str",
     "snowflake_id", "snowflake_id_str"}

\* thread t calls fn(): lines 252 and 262 call lines 218 and 228, which call
\* get_snowflake_generator() without arguments
ModuleCall(t, fn) ==
    /\ pc[t] = "idle"
    /\ calls < GlobalCalls
    /\ pc' = [pc EXCEPT ![t] = "L203"]
    /\ op' = [op EXCEPT ![t] = fn]
    /\ args' = [args EXCEPT ![t] = AccessorDefaults]
    /\ started' = [started EXCEPT ![t] = Len(returned)]
    /\ result' = [result EXCEPT ![t] = NoResult]
    /\ calls' = calls + 1
    /\ UNCHANGED <<heap, globals, self, timestamp, wait, history, context>>

\* thread t calls parse_snowflake_id(snowflake_id): line 241 calls
\* get_snowflake_generator() without arguments; args[t][3] keeps the ID
ParseCall(t, snowflake_id) ==
    /\ pc[t] = "idle"
    /\ calls < GlobalCalls
    /\ pc' = [pc EXCEPT ![t] = "L203"]
    /\ op' = [op EXCEPT ![t] = "parse_snowflake_id"]
    /\ args' = [args EXCEPT ![t] = AccessorDefaults \o <<snowflake_id>>]
    /\ result' = [result EXCEPT ![t] = NoResult]
    /\ calls' = calls + 1
    /\ UNCHANGED <<heap, globals, self, timestamp, wait, started, history, context>>

\* ------------------- set_current_user, get_current_user, clear_current_user
UserCalls == 4

\* 101, 102, True, False, 0, -1, "123", 123.45, None
UserIds ==
    {Obj("int", 101), Obj("int", 102), Obj("bool", 1), Obj("bool", 0),
     Obj("int", 0), Obj("int", -1), Obj("str", 123), Obj("float", 12345),
     NoneObj}

\* set_current_user(user_id)
SetCurrentUser(t, user_id) ==
    /\ pc[t] = "idle"
    /\ calls < UserCalls
    /\ calls' = calls + 1
    /\ op' = [op EXCEPT ![t] = "set_current_user"]
    /\ args' = [args EXCEPT ![t] = <<user_id>>]
    /\ IF InvalidUserId(user_id)
       THEN /\ result' = [result EXCEPT ![t] =
                   [kind |-> "ValueError",
                    message |-> "user_id must be a positive integer",
                    call |-> calls + 1]]
            /\ UNCHANGED context
       ELSE LET c == ContextOf(t) IN
            /\ tokens' = Append(tokens, NewToken(c, _current_user_id[c]))
            /\ tokenlog' = Append(tokenlog,
                   [before |-> ContextGet(_current_user_id[c]),
                    made |-> calls + 1, reset |-> 0])
            /\ _current_user_id' = [_current_user_id EXCEPT ![c] = user_id]
            /\ result' = [result EXCEPT ![t] =
                   [kind |-> "Token", token |-> Len(tokens) + 1,
                    call |-> calls + 1]]
    /\ UNCHANGED <<heap, globals, pc, self, timestamp, wait, started, history>>

\* get_current_user()
GetCurrentUser(t) ==
    /\ pc[t] = "idle"
    /\ calls < UserCalls
    /\ calls' = calls + 1
    /\ op' = [op EXCEPT ![t] = "get_current_user"]
    /\ args' = [args EXCEPT ![t] = <<>>]
    /\ LET user_id == ContextGet(_current_user_id[ContextOf(t)]) IN
          result' = [result EXCEPT ![t] =
              [kind |-> "value", value |-> user_id,
               warning |-> user_id = NoneObj, call |-> calls + 1]]
    /\ UNCHANGED <<heap, globals, pc, self, timestamp, wait, started, history,
                   context>>

\* clear_current_user(token)
ClearCurrentUser(t, token) ==
    /\ pc[t] = "idle"
    /\ calls < UserCalls
    /\ calls' = calls + 1
    /\ op' = [op EXCEPT ![t] = "clear_current_user"]
    /\ args' = [args EXCEPT ![t] = <<token>>]
    /\ LET c == ContextOf(t)
           error == ResetError(tokens, token, c)
       IN  IF error # ""
           THEN /\ result' = [result EXCEPT ![t] =
                       [kind |-> error, token |-> token, call |-> calls + 1]]
                /\ UNCHANGED context
           ELSE /\ _current_user_id' =
                       [_current_user_id EXCEPT ![c] = tokens[token].old_value]
                /\ tokens' = [tokens EXCEPT ![token].used = TRUE]
                /\ tokenlog' = [tokenlog EXCEPT ![token].reset = calls + 1]
                /\ result' = [result EXCEPT ![t] =
                       [kind |-> "None", token |-> token, call |-> calls + 1]]
    /\ UNCHANGED <<heap, globals, pc, self, timestamp, wait, started, history>>

\* ------------------------------------------------------ specifications
\* the steps of generate_id, the clock reading any value of clock
Generate(t, clock) ==
    \/ Acquire(t)
    \/ \E now \in clock : ReadTimestamp(t, now)
    \/ CheckDrift(t)
    \/ UpdateSequence(t)
    \/ \E now \in clock : WaitForNextMillis(t, now)
    \/ StoreLastTimestamp(t)
    \/ ReturnId(t)

\* threads calling generate_id on one shared generator, under any clock
Next ==
    \E t \in Threads :
        \/ Call(t, 1, MaxCalls)
        \/ Generate(t, ClockValues)

Spec == Init /\ [][Next]_vars

\* clock mocked: it reads T0 until a caller waits for the next millisecond,
\* and only then may read T1
FrozenClock == {T0}
ThawedClock == {T0, T1}

InitChain ==
    /\ heap = <<NewGenerator(PyInt(1), PyInt(1), PyInt(0))>>
    /\ run = <<NoRun>>
    /\ Idle

\* one caller generating IDs in a row from one generator, the clock mocked
NextChain ==
    \/ Call(1, 1, MaxChain)
    \/ Acquire(1)
    \/ \E now \in FrozenClock : ReadTimestamp(1, now)
    \/ CheckDrift(1)
    \/ UpdateSequence(1)
    \/ \E now \in ThawedClock : WaitForNextMillis(1, now)
    \/ StoreLastTimestamp(1)
    \/ ReturnId(1)

SpecChain == InitChain /\ [][NextChain]_vars

\* no generator constructed yet
InitEmpty ==
    /\ heap = <<>>
    /\ run = <<>>
    /\ Idle

\* constructor arguments tried: in range, and just outside it on either side
ConstructorIds == {-1, 0, 1, 31, 32}

\* one thread constructing generators
NextConstruct ==
    \E d \in ConstructorIds, w \in ConstructorIds : Construct(1, d, w, 0)

SpecConstruct == InitEmpty /\ [][NextConstruct]_vars

\* (datacenter_id, worker_id) of the two generators of a pair
PairArgs == {<<0, 0>>, <<0, 31>>, <<31, 0>>, <<31, 31>>}
PairClock == {PyInt(-1), T0, T1}

\* both generators are constructed with sequence = 4095, so that a first
\* clock reading equal to the initial last_timestamp wraps the sequence
InitPair ==
    /\ \E a \in PairArgs, b \in PairArgs :
          heap = <<NewGenerator(PyInt(a[1]), PyInt(a[2]), PyInt(4095)),
                   NewGenerator(PyInt(b[1]), PyInt(b[2]), PyInt(4095))>>
    /\ run = <<NoRun, NoRun>>
    /\ Idle

\* threads calling generate_id on either of two generators
NextPair ==
    \E t \in Threads :
        \/ \E g \in 1..2 : Call(t, g, PairCalls)
        \/ Generate(t, PairClock)

SpecPair == InitPair /\ [][NextPair]_vars

\* threads calling get_snowflake_generator before the global generator exists
NextGlobal ==
    \E t \in Threads :
        \/ \E a \in AccessorArgs : GetCall(t, a[1], a[2])
        \/ FirstCheck(t)
        \/ AcquireGlobal(t)
        \/ SecondCheck(t)
        \/ ConstructGlobal(t)
        \/ ReturnGlobal(t)

SpecGlobal == InitEmpty /\ [][NextGlobal]_vars

\* readings of the clock while the module-level functions run
ModuleClock == {T0, T1}

\* the module before its first call, or once the global generator, built
\* with the defaults, has returned MAX_SEQUENCE + 1 IDs of millisecond T0:
\* its next ID of that millisecond wraps the sequence
InitModule ==
    \/ InitEmpty
    \/ /\ heap = <<[NewGenerator(PyInt(1), PyInt(1), PyInt(4095))
                        EXCEPT !.last_timestamp = T0]>>
       /\ run = <<NoRun>>
       /\ _snowflake_generator = 1
       /\ Quiet

\* threads calling the module-level functions before the global generator
\* exists and after
NextModule ==
    \E t \in Threads :
        \/ \E a \in AccessorArgs : GetCall(t, a[1], a[2])
        \/ \E fn \in ModuleFunctions : ModuleCall(t, fn)
        \/ \E id \in ParseInputs : ParseCall(t, id)
        \/ FirstCheck(t)
        \/ AcquireGlobal(t)
        \/ SecondCheck(t)
        \/ ConstructGlobal(t)
        \/ ReturnGlobal(t)
        \/ Generate(t, ModuleClock)

SpecModule == InitModule /\ [][NextModule]_vars

\* threads calling snowflake_id(), the default factory of BaseModel.id
\* (base_model.py line 20), and get_snowflake_generator with any arguments
NextFactory ==
    \E t \in Threads :
        \/ \E a \in AccessorArgs : GetCall(t, a[1], a[2])
        \/ ModuleCall(t, "snowflake_id")
        \/ FirstCheck(t)
        \/ AcquireGlobal(t)
        \/ SecondCheck(t)
        \/ ConstructGlobal(t)
        \/ ReturnGlobal(t)
        \/ Generate(t, ModuleClock)

SpecFactory == InitModule /\ [][NextFactory]_vars

\* constructor arguments of the generator the methods are called on: its
\* second call wraps the sequence when the clock still reads -1
OpsArgs == {<<31, 0, 4094>>}
OpsClock == {PyInt(-1), T0}
OpsCalls == 3

InitOps ==
    /\ \E a \in OpsArgs :
          heap = <<NewGenerator(PyInt(a[1]), PyInt(a[2]), PyInt(a[3]))>>
    /\ run = <<NoRun>>
    /\ Idle

\* threads calling generate_id, generate_id_str and parse_id on one generator
NextOps ==
    \E t \in Threads :
        \/ Call(t, 1, OpsCalls)
        \/ CallStr(t, 1, OpsCalls)
        \/ \E id \in ParseInputs : ParseId(t, 1, id, OpsCalls)
        \/ Generate(t, OpsClock)

SpecOps == InitOps /\ [][NextOps]_vars

\* set_current_user, get_current_user and clear_current_user called from
\* every thread, each thread in its own context
NextContext ==
    \E t \in Threads :
        \/ \E user_id \in UserIds : SetCurrentUser(t, user_id)
        \/ GetCurrentUser(t)
        \/ \E token \in 0..Len(tokens) : ClearCurrentUser(t, token)

SpecContext == InitEmpty /\ [][NextContext]_vars

\* readings of the clock around T0: one millisecond behind it, T0, and T1
WarmClock == {Sub(T0, PyInt(1)), T0, T1}
WarmCalls == 3

\* a generator built with (1, 1, 0) that has returned MAX_SEQUENCE IDs of
\* millisecond T0, the state SpecChain is in after 4095 calls: one more ID
\* of T0 uses the last sequence number, the one after it wraps
InitWarm ==
    /\ heap = <<[NewGenerator(PyInt(1), PyInt(1), PyInt(4094))
                    EXCEPT !.last_timestamp = T0]>>
    /\ run = <<[timestamp |-> T0, count |-> 4095,
                last_id |-> ComposeId(T0, PyInt(1), PyInt(1), PyInt(4094)),
                prev_id |-> ComposeId(T0, PyInt(1), PyInt(1), PyInt(4093))]>>
    /\ Idle

\* threads calling generate_id on that generator
NextWarm ==
    \E t \in Threads :
        \/ Call(t, 1, WarmCalls)
        \/ Generate(t, WarmClock)

SpecWarm == InitWarm /\ [][NextWarm]_vars

\* the initial sequence passed to the constructor of each generator: the
\* constructor does not check it, so it may be negative or above MAX_SEQUENCE
SeqArgs == <<5, 4095, -1, 4100>>
SeqClock == {PyInt(-1), T0}

InitSeq ==
    /\ heap = [g \in 1..Len(SeqArgs) |->
                  NewGenerator(PyInt(1), PyInt(1), PyInt(SeqArgs[g]))] \o <<>>
    /\ run = [g \in 1..Len(SeqArgs) |-> NoRun] \o <<>>
    /\ Idle

\* threads calling generate_id on generators constructed with a sequence
NextSeq ==
    \E t \in Threads :
        \/ \E g \in 1..Len(SeqArgs) : Call(t, g, PairCalls)
        \/ Generate(t, SeqClock)

SpecSeq == InitSeq /\ [][NextSeq]_vars

\* IDs handed to parse_id: every combination of the smallest, a middle and
\* the largest value of each field, from 0 up to 2^63 - 1
ParseCalls == 2
MaxStamp == Sub(Shl(PyInt(1), TIMESTAMP_BITS), PyInt(1))
ParseSamples ==
    {IdSum(Add(EPOCH, ts), PyInt(d), PyInt(w), PyInt(s)) :
        ts \in {PyInt(0), PyInt(5000), MaxStamp},
        d \in {0, 21, 31}, w \in {0, 10, 31}, s \in {0, 1, 2730, 4095}}

\* one caller handing IDs to parse_id of a generator
NextParse == \E id \in ParseSamples : ParseId(1, 1, id, ParseCalls)

SpecParse == InitChain /\ [][NextParse]_vars

\* arguments of the first accessor calls: in range, datacenter_id above the
\* range, worker_id below it, both outside
RetryArgs == {<<1, 1>>, <<32, 1>>, <<1, -1>>, <<-1, 32>>}

\* threads calling get_snowflake_generator with arguments in and out of
\* range before the global generator exists
NextRetry ==
    \E t \in Threads :
        \/ \E a \in RetryArgs : GetCall(t, a[1], a[2])
        \/ FirstCheck(t)
        \/ AcquireGlobal(t)
        \/ SecondCheck(t)
        \/ ConstructGlobal(t)
        \/ ReturnGlobal(t)

SpecRetry == InitEmpty /\ [][NextRetry]_vars

\* ------------------------------------------------------ progress
LiveCalls == 2

\* the clock stalls at the millisecond of the wrap or has moved past it
LiveClock == {PyInt(-1), T0}

\* initial sequences one and two steps before the wrap
LiveSequences == {4094, 4095}

\* a generator whose first or second call wraps the sequence when the clock
\* still reads -1
InitLive ==
    /\ \E s \in LiveSequences :
          heap = <<NewGenerator(PyInt(1), PyInt(1), PyInt(s))>>
    /\ run = <<NoRun>>
    /\ Idle

NextLive ==
    \E t \in Threads :
        \/ Call(t, 1, LiveCalls)
        \/ Generate(t, LiveClock)

\* line 97 reads a clock that has passed last_timestamp
ClockAdvances(t) ==
    /\ pc[t] = "L95"
    /\ \E now \in LiveClock :
          /\ ~StillSameMillis(now, wait[t].last_timestamp)
          /\ WaitForNextMillis(t, now)

\* every thread keeps running, the lock is granted fairly, and a spinning
\* caller eventually reads a clock value above last_timestamp
Fairness ==
    \A t \in Threads :
        /\ WF_vars(Generate(t, LiveClock))
        /\ SF_vars(Acquire(t))
        /\ WF_vars(ClockAdvances(t))

SpecLive == InitLive /\ [][NextLive]_vars /\ Fairness

\* ------------------------------------------------------------ claims
SameGenerator(i, j) == returned[i].gen = returned[j].gen
Returned == 1..Len(returned)
InCriticalSection(t) == pc[t] \in {"L111", "L114", "L120", "L95", "L129", "L132"}

\* C1: if a successful generate_id call on a generator returned before another
\* successful call on it started, the first ID is strictly less than the
\* second, whatever the clock read and whichever calls failed in between.
C1_Monotonic ==
    \A i \in Returned, j \in Returned :
        (SameGenerator(i, j) /\ i <= returned[j].started)
            => Lt(returned[i].id, returned[j].id)

\* an ID, then a call failing with the drift error, then a call begun after
\* both that returns an ID
C1_Witness ==
    /\ Len(returned) = 2
    /\ returned[2].started = 1
    /\ \E t \in Threads :
          /\ result[t].kind = "RuntimeError"
          /\ result[t].after = 1
          /\ returned[2].thread # t

\* C2: with threads calling generate_id concurrently on one generator, all
\* returned IDs are pairwise distinct, and for every timestamp as many IDs
\* were returned as distinct sequence values were issued for it.
C2_NoDuplicates ==
    /\ \A i \in Returned, j \in Returned :
          (i # j /\ SameGenerator(i, j)) => returned[i].id # returned[j].id
    /\ \A i \in Returned :
          LET same == {j \in Returned : /\ SameGenerator(i, j)
                                        /\ returned[j].timestamp = returned[i].timestamp}
          IN  Cardinality(same) = Cardinality({returned[j].sequence : j \in same})

\* two calls of different threads that overlapped and took the same timestamp
C2_Witness ==
    /\ Len(returned) >= 2
    /\ returned[1].thread # returned[2].thread
    /\ returned[2].started = 0
    /\ returned[1].timestamp = returned[2].timestamp

\* C4: at most one caller at a time is between the clock read and the return
\* of generate_id on a generator, and that caller holds the generator's lock.
C4_MutualExclusion ==
    \A t \in Threads :
        InCriticalSection(t) =>
            /\ heap[self[t]].lock = t
            /\ \A u \in Threads \ {t} :
                  InCriticalSection(u) => self[u] # self[t]

\* one caller spin-waiting inside the critical section while another waits
\* for the same generator's lock
C4_Witness ==
    \E t \in Threads, u \in Threads :
        /\ pc[t] = "L95"
        /\ pc[u] = "L110"
        /\ self[t] = self[u]

\* C5: a call whose clock reading is less than last_timestamp fails with the
\* RuntimeError, the magnitude it reports plus the reading is last_timestamp,
\* and the call returns no ID.
C5_DriftError ==
    [][\A t \in Threads :
          (/\ pc[t] = "L114"
           /\ pc'[t] # "L114"
           /\ Lt(timestamp[t], heap[self[t]].last_timestamp))
              => /\ result'[t].kind = "RuntimeError"
                 /\ Add(result'[t].drift, timestamp[t]) = heap[self[t]].last_timestamp
                 /\ pc'[t] = "idle"
                 /\ returned' = returned
                 /\ run' = run]_vars

\* a call that failed because the clock read one millisecond less
C5_Witness ==
    \E t \in Threads :
        /\ result[t].kind = "RuntimeError"
        /\ result[t].drift = PyInt(1)
        /\ result[t].timestamp = T0

\* C7: among the IDs a generator returns with the same timestamp, the first
\* decodes to sequence 0 and each following one to the previous sequence + 1.
C7_SequenceFromZero ==
    \A i \in Returned :
        LET earlier == {j \in 1..(i - 1) : /\ SameGenerator(i, j)
                                           /\ returned[j].timestamp = returned[i].timestamp}
            decoded(k) == parse_id(returned[k].id).sequence
        IN  IF earlier = {}
            THEN decoded(i) = PyInt(0)
            ELSE decoded(i) = Add(decoded(CHOOSE j \in earlier :
                                              \A k \in earlier : k <= j), PyInt(1))

\* C8: parse_id of a returned ID gives the generator's datacenter_id and
\* worker_id, the clock value the ID was built from and the sequence used.
C8_RoundTrip ==
    \A i \in Returned :
        LET parsed == parse_id(returned[i].id)
            g == heap[returned[i].gen]
        IN  /\ parsed.datacenter_id = g.datacenter_id
            /\ parsed.worker_id = g.worker_id
            /\ parsed.timestamp = returned[i].timestamp
            /\ parsed.sequence = returned[i].sequence

\* a second ID of one millisecond, from a generator with datacenter_id 31
C8_Witness ==
    /\ Len(returned) >= 2
    /\ heap[returned[2].gen].datacenter_id = PyInt(31)
    /\ returned[2].sequence = PyInt(1)
    /\ returned[2].timestamp = T1

\* C3: two generators constructed with different (datacenter_id, worker_id)
\* pairs never return the same ID.
PairOf(g) == <<heap[g].datacenter_id, heap[g].worker_id>>

C3_DistinctAcrossGenerators ==
    \A i \in Returned, j \in Returned :
        PairOf(returned[i].gen) # PairOf(returned[j].gen)
            => returned[i].id # returned[j].id

\* two generators that differ only in datacenter_id returned IDs built from
\* the same clock value and the same sequence number
C3_Witness ==
    \E i \in Returned, j \in Returned :
        /\ heap[returned[i].gen].datacenter_id # heap[returned[j].gen].datacenter_id
        /\ heap[returned[i].gen].worker_id = heap[returned[j].gen].worker_id
        /\ returned[i].timestamp = returned[j].timestamp
        /\ returned[i].sequence = returned[j].sequence

\* C6: once a generator returned 4096 IDs with one timestamp T, the next call
\* is about to return only with a clock reading above T and sequence 0; its
\* ID decodes to a timestamp above T and sequence 0; every returned ID is
\* greater than the one returned before it, so none is emitted twice.
C6_WrapWaits ==
    /\ \A t \in Threads :
          (pc[t] \in {"L95", "L129", "L132"} /\ run[self[t]].count = 4096)
              => /\ parse_id(run[self[t]].last_id).sequence = PyInt(4095)
                 /\ pc[t] = "L95" => /\ wait[t].last_timestamp = run[self[t]].timestamp
                                     /\ wait[t].timestamp # NoInt
                                            => Le(wait[t].timestamp, run[self[t]].timestamp)
                 /\ pc[t] # "L95" => /\ Lt(run[self[t]].timestamp, timestamp[t])
                                     /\ heap[self[t]].sequence = PyInt(0)
    /\ \A g \in 1..Len(run) :
          run[g].prev_id # <<>> =>
              /\ Lt(run[g].prev_id, run[g].last_id)
              /\ run[g].count = 1 =>
                    /\ parse_id(run[g].last_id).sequence = PyInt(0)
                    /\ Lt(parse_id(run[g].prev_id).timestamp,
                          parse_id(run[g].last_id).timestamp)

\* the call after 4096 IDs of millisecond T0 has returned, with timestamp T1
C6_Witness ==
    /\ run[1].timestamp = T1
    /\ run[1].count = 1
    /\ parse_id(run[1].prev_id) =
          [timestamp |-> T0, datacenter_id |-> PyInt(1), worker_id |-> PyInt(1),
           sequence |-> PyInt(4095)]
    /\ calls = 4097

\* C9: constructing a generator succeeds exactly when both datacenter_id and
\* worker_id lie in 0..31; otherwise it raises ValueError and no generator is
\* produced.
C9_ConstructorRange ==
    [][\A t \in Threads :
          (result'[t] # result[t] /\ op'[t] = "SnowflakeIDGenerator") =>
              LET a == result'[t].args IN
              IF a[1] \in 0..31 /\ a[2] \in 0..31
              THEN /\ result'[t].kind = "generator"
                   /\ Len(heap') = Len(heap) + 1
                   /\ result'[t].gen = Len(heap')
                   /\ heap'[Len(heap')].datacenter_id = PyInt(a[1])
                   /\ heap'[Len(heap')].worker_id = PyInt(a[2])
              ELSE /\ result'[t].kind = "ValueError"
                   /\ heap' = heap]_vars

\* a construction with worker_id = -1 raised ValueError after one succeeded
C9_Witness ==
    /\ result[1].kind = "ValueError"
    /\ result[1].args = <<31, -1, 0>>
    /\ Len(heap) = 1

\* C10: however threads interleave in get_snowflake_generator, at most one
\* generator is ever constructed, every call that returns returns that one
\* instance, and only a call with out-of-range arguments raises.
C10_Singleton ==
    /\ Len(heap) <= 1
    /\ \A t \in Threads :
          /\ result[t].kind = "generator" =>
                /\ Len(heap) = 1
                /\ result[t].gen = 1
                /\ _snowflake_generator = 1
          /\ result[t].kind = "ValueError" =>
                ~(result[t].args[1] \in 0..31 /\ result[t].args[2] \in 0..31)

\* a thread that saw no generator at the first check is inside the lock at
\* the second check after another thread constructed and returned it
C10_Witness ==
    \E t \in Threads, u \in Threads :
        /\ result[t].kind = "generator"
        /\ pc[u] = "L205"
        /\ _snowflake_generator = 1

\* C13: no step of generate_id, successful or failing, under any clock,
\* lowers a generator's last_timestamp, and the timestamp decoded from each ID
\* a generator returns is not below the one decoded from the ID it returned
\* before.
C13_LastTimestampMonotone ==
    [][\A g \in 1..Len(heap) :
          /\ \/ heap'[g].last_timestamp = heap[g].last_timestamp
             \/ Lt(heap[g].last_timestamp, heap'[g].last_timestamp)
          /\ (run'[g] # run[g] /\ run[g].last_id # NoInt)
                => Le(parse_id(run[g].last_id).timestamp,
                      parse_id(run'[g].last_id).timestamp)]_vars

\* last_timestamp went from T0 to T1 over two IDs of one thread while the
\* other thread's call, reading the clock behind T0, failed
C13_Witness ==
    /\ Len(returned) = 2
    /\ returned[1].timestamp = T0
    /\ returned[2].timestamp = T1
    /\ heap[1].last_timestamp = T1
    /\ \E t \in Threads :
          /\ result[t].kind = "RuntimeError"
          /\ result[t].last_timestamp = T0
          /\ result[t].timestamp = PyInt(-1)

\* C14: every ID generate_id returns is non-negative and below 2^63.
C14_InSignedRange ==
    \A i \in Returned :
        /\ ~IsNeg(returned[i].id)
        /\ Lt(returned[i].id, Shl(PyInt(1), 63))

\* C12: with a clock that eventually reads above last_timestamp and a lock
\* granted fairly, every generate_id call in progress eventually ends, with an
\* ID or with the RuntimeError of the drift check; a call that spin-waits
\* after a sequence overflow ends with an ID, never with an error.
C12_Completes ==
    /\ \A t \in Threads :
          (pc[t] # "idle")
              ~> (pc[t] = "idle" /\ result[t].kind \in {"id", "RuntimeError"})
    /\ [][\A t \in Threads :
            (pc[t] \in {"L95", "L129", "L132"} /\ pc'[t] = "idle")
                => result'[t].kind = "id"]_vars

\* a call spin-waits after the sequence overflowed, has read the stalled clock
\* once already, and the other thread's call waits for the lock
C12_Witness ==
    \E t \in Threads, u \in Threads :
        /\ pc[t] = "L95"
        /\ wait[t].timestamp = PyInt(-1)
        /\ heap[1].sequence = PyInt(0)
        /\ pc[u] = "L110"

\* C11: an ID returned by snowflake_id() differs from every ID an earlier
\* snowflake_id() call returned, and is greater than the ID of every call
\* that had returned before it started, whichever threads made the calls and
\* whichever call constructed the global generator.
C11_FactoryIdsFresh ==
    \A i \in Returned, j \in Returned :
        (/\ returned[i].op = "snowflake_id"
         /\ returned[j].op = "snowflake_id"
         /\ i < j)
            => /\ returned[i].id # returned[j].id
               /\ i <= returned[j].started
                     => Lt(returned[i].id, returned[j].id)

\* the first two calls of the process, made by different threads while no
\* ID had been returned, both returned an ID of the same millisecond
C11_Witness ==
    /\ calls = 2
    /\ Len(returned) = 2
    /\ Len(heap) = 1
    /\ returned[1].op = "snowflake_id"
    /\ returned[2].op = "snowflake_id"
    /\ returned[1].thread # returned[2].thread
    /\ returned[2].started = 0
    /\ returned[1].timestamp = returned[2].timestamp

\* C15: every ID generate_snowflake_id() returns decodes to datacenter_id 1
\* and worker_id 1, whatever module-level calls came before it.
C15_DefaultIds ==
    \A i \in Returned :
        returned[i].op = "generate_snowflake_id"
            => /\ parse_id(returned[i].id).datacenter_id = PyInt(1)
               /\ parse_id(returned[i].id).worker_id = PyInt(1)

\* C16: no step of generate_id (returning, spin-waiting or raising),
\* generate_id_str or parse_id changes a generator's datacenter_id or
\* worker_id.
C16_IdsFixed ==
    [][\A g \in 1..Len(heap) :
          /\ heap'[g].datacenter_id = heap[g].datacenter_id
          /\ heap'[g].worker_id = heap[g].worker_id]_vars

\* on the generator built with (31, 0): generate_id_str returned the text of
\* an ID, a call failed with the drift error, and three calls were made
C16_Witness ==
    /\ calls = 3
    /\ heap[1].datacenter_id = PyInt(31)
    /\ heap[1].worker_id = PyInt(0)
    /\ \E t \in Threads, u \in Threads :
          /\ result[t].kind = "str"
          /\ result[u].kind = "RuntimeError"

\* C17: a parse_id call changes no generator (its sequence, last_timestamp
\* and lock stay as they were) and returns the record determined by the ID
\* alone, the same in every generator state.
C17_ParseStateless ==
    [][\A t \in Threads :
          (result'[t] # result[t] /\ result'[t].kind = "dict")
              => /\ heap' = heap
                 /\ result'[t].dict = parse_id(result'[t].id)]_vars

\* parse_id returned the record of an ID returned before, while the other
\* thread held the lock in the spin-wait, where it still is
C17_Witness ==
    \E t \in Threads, u \in Threads :
        /\ result[t].kind = "dict"
        /\ result[t].held = "L95"
        /\ result[t].id # PyInt(0)
        /\ pc[u] = "L95"
        /\ heap[1].lock = u

\* thread t finished a call in this step
Acted(t) == result'[t] # result[t]

\* C18: when set_current_user(u) returns its token, the current user of the
\* caller's context is u; get_current_user() returns the current user of the
\* caller's context and changes nothing; and the current user of a context
\* changes only in a step in which a set_current_user or a clear_current_user
\* called in that context returns normally.  Hence every get_current_user()
\* between a successful set_current_user(u) and the next successful set or
\* clear of the same context returns u.
C18_SetThenGet ==
    [][\A t \in Threads :
          /\ (Acted(t) /\ result'[t].kind = "Token")
                => _current_user_id'[t] = args'[t][1]
          /\ (Acted(t) /\ result'[t].kind = "value")
                => /\ result'[t].value = ContextGet(_current_user_id[t])
                   /\ _current_user_id' = _current_user_id
          /\ _current_user_id'[t] # _current_user_id[t]
                => /\ Acted(t)
                   /\ result'[t].kind \in {"Token", "None"}]_vars

\* thread 1 set user 101; thread 2 then set user 102 in its own context, and
\* a later get_current_user() of thread 1 still returned 101
C18_Witness ==
    /\ Len(tokens) = 2
    /\ tokens[1].context = 1
    /\ tokens[2].context = 2
    /\ _current_user_id[2] = Obj("int", 102)
    /\ result[1].kind = "value"
    /\ result[1].value = Obj("int", 101)
    /\ result[1].call > tokenlog[2].made

\* C19: set_current_user(x) raises ValueError for every x that is not a
\* positive integer (0, -1, False, "123", 123.45, None), and that call leaves
\* the current user of every context and the tokens as they were.  True is
\* an int of value 1 to isinstance and to <=, and counts as one here.
C19_InvalidRejected ==
    [][\A t \in Threads :
          (/\ Acted(t)
           /\ op'[t] = "set_current_user"
           /\ ~(/\ args'[t][1].type \in {"int", "bool"}
                /\ args'[t][1].value > 0))
          => /\ result'[t].kind = "ValueError"
             /\ result'[t].message = "user_id must be a positive integer"
             /\ _current_user_id' = _current_user_id
             /\ tokens' = tokens]_vars

\* thread 1 has user 101 and its set_current_user("123") raised
C19_Witness ==
    /\ op[1] = "set_current_user"
    /\ args[1] = <<Obj("str", 123)>>
    /\ result[1].kind = "ValueError"
    /\ _current_user_id[1] = Obj("int", 101)

\* the tokens made in context c
TokensOf(c) == {k \in 1..Len(tokens) : tokens[k].context = c}

\* the users of context c were set one after the other and then every token
\* was cleared, the latest first
ClearedInReverse(c) ==
    /\ TokensOf(c) # {}
    /\ \A k \in TokensOf(c) : tokenlog[k].reset > 0
    /\ \A j, k \in TokensOf(c) :
          /\ tokenlog[j].made < tokenlog[k].reset
          /\ j < k => tokenlog[k].reset < tokenlog[j].reset

C21_BackwardReadingFatal ==
    \A t \in Threads :
        /\ pc[t] = "L120"
              => ~Lt(timestamp[t], heap[self[t]].last_timestamp)
        /\ (pc[t] = "L95" /\ wait[t].timestamp # NoInt)
              => ~Lt(wait[t].timestamp, heap[self[t]].last_timestamp)

\* C22: the first ID a generator returns decodes to the sequence its
\* constructor was given, when that value is not 0.
C22_FirstIdCarriesSequence ==
    \A i \in Returned :
        (/\ \A j \in 1..(i - 1) : ~SameGenerator(i, j)
         /\ SeqArgs[returned[i].gen] # 0)
            => parse_id(returned[i].id).sequence
                  = PyInt(SeqArgs[returned[i].gen])

\* C23: the step in which generate_id raises the drift error changes nothing
\* of the generator but its lock, which it frees, and returns no ID; a call
\* whose reading is not behind last_timestamp passes the drift check; and
\* every ID returned is greater than all IDs the generator returned before,
\* those returned before a failed call included.
C23_FailureLeavesState ==
    [][\A t \in Threads :
          LET g == self[t] IN
          /\ (pc[t] = "L114" /\ pc'[t] = "idle")
                => /\ result'[t].kind = "RuntimeError"
                   /\ heap[g].lock = t
                   /\ heap' = [heap EXCEPT ![g].lock = 0]
                   /\ returned' = returned
                   /\ run' = run
          /\ (pc[t] = "L114" /\ pc'[t] # "L114"
                /\ ~Lt(timestamp[t], heap[g].last_timestamp))
                => pc'[t] = "L120"
          /\ (pc[t] = "L132" /\ pc'[t] = "idle")
                => /\ Lt(run[g].last_id, result'[t].id)
                   /\ \A i \in Returned :
                         returned[i].gen = g
                            => Lt(returned[i].id, result'[t].id)]_vars

\* an ID, then a call failing on a reading one millisecond behind, then an
\* ID of a call that took the lock after the failure
C23_Witness ==
    /\ Len(returned) = 2
    /\ returned[2].started = 1
    /\ returned[2].timestamp = T1
    /\ \E t \in Threads :
          /\ result[t].kind = "RuntimeError"
          /\ result[t].after = 1
          /\ result[t].drift = PyInt(1)
          /\ returned[2].thread # t
    /\ heap[1].lock = 0

\* C24: the ID generate_id returns is (now - 1672531200000) * 2^22 +
\* datacenter_id * 2^17 + worker_id * 2^12 + sequence, for the last_timestamp
\* now and the sequence the generator holds when the call returns; and
\* datacenter_id and worker_id are below 2^5 and sequence below 2^12, none
\* negative, so that the fields do not overlap.
C24_IdIsSum ==
    [][\A t \in Threads :
          (pc[t] = "L132" /\ pc'[t] = "idle")
          => LET g == heap'[self[t]] IN
             /\ result'[t].id = IdSum(g.last_timestamp, g.datacenter_id,
                                      g.worker_id, g.sequence)
             /\ Le(PyInt(0), g.sequence) /\ Lt(g.sequence, PyInt(4096))
             /\ Le(PyInt(0), g.worker_id) /\ Lt(g.worker_id, PyInt(32))
             /\ Le(PyInt(0), g.datacenter_id)
             /\ Lt(g.datacenter_id, PyInt(32))]_vars

\* generate_id returned an ID with the largest sequence and the largest
\* datacenter_id, built from a clock reading before the epoch
C24_Witness ==
    \E i \in Returned :
        /\ returned[i].op = "generate_id"
        /\ returned[i].sequence = PyInt(4095)
        /\ returned[i].timestamp = PyInt(-1)
        /\ heap[returned[i].gen].datacenter_id = PyInt(31)

\* floor(a / d) and a mod d for a >= 0, by long division
Quot(a, d) == DivSmall(a, d, NLimbs, 0)[1]
Rem(a, d) == PyInt(DivSmall(a, d, NLimbs, 0)[2])

\* C25: for an id in [0, 2^63), parse_id(id) returns timestamp =
\* floor(id / 2^22) + 1672531200000, datacenter_id = floor(id / 2^17) mod 32,
\* worker_id = floor(id / 2^12) mod 32 and sequence = id mod 4096, and the
\* expression of generate_id applied to these four fields gives id.
C25_ParseFields ==
    \A t \in Threads :
        (/\ result[t].kind = "dict"
         /\ Le(PyInt(0), result[t].id)
         /\ Lt(result[t].id, Shl(PyInt(1), 63)))
        => LET id == result[t].id
               parsed == result[t].dict
           IN  /\ parsed.timestamp
                     = Add(Quot(Quot(id, 2048), 2048), EPOCH)
               /\ parsed.datacenter_id = Rem(Quot(Quot(id, 2048), 64), 32)
               /\ parsed.worker_id = Rem(Quot(id, 4096), 32)
               /\ parsed.sequence = Rem(id, 4096)
               /\ ComposeId(parsed.timestamp, parsed.datacenter_id,
                            parsed.worker_id, parsed.sequence) = id

\* parse_id returned the fields of 2^63 - 1
C25_Witness ==
    /\ result[1].kind = "dict"
    /\ result[1].id = Sub(Shl(PyInt(1), 63), PyInt(1))
    /\ result[1].dict =
          [timestamp |-> Add(EPOCH, MaxStamp), datacenter_id |-> PyInt(31),
           worker_id |-> PyInt(31), sequence |-> PyInt(4095)]

\* C26: the sequence an ID is built from lies in 0..4095, whatever sequence
\* the constructor was given (5, 4095, -1 or 4100) and whatever the clock
\* read, and the ID decodes to that sequence and to the generator's worker_id
\* and datacenter_id: the sequence does not reach the bits above its twelve.
C26_SequenceInField ==
    \A i \in Returned :
        LET parsed == parse_id(returned[i].id)
            g == heap[returned[i].gen]
        IN  /\ Le(PyInt(0), returned[i].sequence)
            /\ Le(returned[i].sequence, PyInt(4095))
            /\ parsed.sequence = returned[i].sequence
            /\ parsed.worker_id = g.worker_id
            /\ parsed.datacenter_id = g.datacenter_id

\* the generator constructed with sequence 4100 returned its first ID, from
\* a clock reading equal to the initial last_timestamp, with sequence 5
C26_Witness ==
    \E i \in Returned :
        /\ SeqArgs[returned[i].gen] = 4100
        /\ returned[i].timestamp = PyInt(-1)
        /\ returned[i].sequence = PyInt(5)

\* C27: a generator never returns more than 4096 IDs with one timestamp:
\* the IDs it returns with a timestamp follow one another, a timestamp it
\* has left for a greater one never comes back, and each such run of IDs
\* has at most 4096.
C27_AtMost4096 ==
    [][\A g \in 1..Len(run) :
          /\ run'[g].count <= 4096
          /\ run'[g].timestamp # run[g].timestamp
                => Lt(run[g].timestamp, run'[g].timestamp)
          /\ run'[g] # run[g]
                => run'[g].count = IF run'[g].timestamp = run[g].timestamp
                                   THEN run[g].count + 1 ELSE 1]_vars

\* 4096 IDs of millisecond T0 have been returned; the next caller is in the
\* loop of _wait_for_next_millis, has read T0 again, and another one waits
\* for the lock
C27_Witness ==
    /\ run[1].count = 4096
    /\ run[1].timestamp = T0
    /\ \E t \in Threads, u \in Threads :
          /\ pc[t] = "L95"
          /\ wait[t].timestamp = T0
          /\ pc[u] = "L110"

\* C28: once the global generator exists, no step of get_snowflake_generator
\* replaces it, constructs another or changes its datacenter_id or
\* worker_id, and every call that finishes returns that instance and raises
\* nothing, whatever arguments it was given.
C28_ArgumentsIgnored ==
    [][_snowflake_generator # 0 =>
          LET g == _snowflake_generator IN
          /\ _snowflake_generator' = g
          /\ Len(heap') = Len(heap)
          /\ heap'[g].datacenter_id = heap[g].datacenter_id
          /\ heap'[g].worker_id = heap[g].worker_id
          /\ \A t \in Threads :
                (result'[t] # result[t] /\ result'[t] # NoResult)
                   => /\ result'[t].kind = "generator"
                      /\ result'[t].gen = g]_vars

\* get_snowflake_generator(32, 1) returned the generator that an earlier
\* get_snowflake_generator(2, 3) had constructed
C28_Witness ==
    \E t \in Threads :
        /\ result[t].kind = "generator"
        /\ result[t].args = <<32, 1>>
        /\ result[t].gen = 1
        /\ Len(heap) = 1
        /\ heap[1].datacenter_id = PyInt(2)
        /\ heap[1].worker_id = PyInt(3)

InRange(n) == n \in 0..31

\* C29: a call of get_snowflake_generator raises ValueError only while no
\* global generator exists and only for a datacenter_id or worker_id out of
\* range; the raising step holds the accessor's lock and frees it, and leaves
\* the global unset and no generator constructed.  A call that reaches the
\* constructor with both arguments in range sets the global to a generator
\* with these arguments and frees the lock, and no generator with an
\* argument out of range ever exists.
C29_FailedFirstCall ==
    [][\A t \in Threads :
          /\ (result'[t] # result[t] /\ result'[t].kind = "ValueError")
                => /\ ~(InRange(args[t][1]) /\ InRange(args[t][2]))
                   /\ _snowflake_generator = 0
                   /\ _snowflake_generator' = 0
                   /\ _generator_lock = t
                   /\ _generator_lock' = 0
                   /\ pc'[t] = "idle"
                   /\ heap' = heap
          /\ (pc[t] = "L206" /\ pc'[t] # "L206")
                => IF InRange(args[t][1]) /\ InRange(args[t][2])
                   THEN /\ pc'[t] = "L208"
                        /\ _snowflake_generator' = Len(heap')
                        /\ Len(heap') = Len(heap) + 1
                        /\ heap'[Len(heap')].datacenter_id = PyInt(args[t][1])
                        /\ heap'[Len(heap')].worker_id = PyInt(args[t][2])
                        /\ _generator_lock' = 0
                   ELSE result'[t].kind = "ValueError"]_vars

\* one thread's call raised for worker_id -1 while no generator existed, and
\* the other thread's call then constructed the generator and returned it
C29_Witness ==
    \E t \in Threads, u \in Threads :
        /\ result[t].kind = "ValueError"
        /\ result[t].args = <<1, -1>>
        /\ calls = 2
        /\ result[u].kind = "generator"
        /\ result[u].args = <<1, 1>>
        /\ heap = <<NewGenerator(PyInt(1), PyInt(1), PyInt(0))>>

\* C30: of two returned IDs, whichever generators returned them, the one
\* built from the smaller timestamp is the smaller ID, whatever the
\* datacenter_id, worker_id and sequence of either.
C30_OrderedByTimestamp ==
    \A i \in Returned, j \in Returned :
        Lt(returned[i].timestamp, returned[j].timestamp)
            => Lt(returned[i].id, returned[j].id)

\* the generator with datacenter_id 31 and worker_id 31 returned an ID of
\* millisecond T0, and the generator with datacenter_id 0 and worker_id 0
\* one of T1
C30_Witness ==
    \E i \in Returned, j \in Returned :
        /\ PairOf(returned[i].gen) = <<PyInt(31), PyInt(31)>>
        /\ PairOf(returned[j].gen) = <<PyInt(0), PyInt(0)>>
        /\ returned[i].timestamp = T0
        /\ returned[j].timestamp = T1
====
